---- MODULE Spec2Model ----
(***************************************************************************)
(* A model of the Visitor-Pattern demonstration (src/main.cpp): three      *)
(* element classes (SingleElement, ArrayElement, StringElement), three     *)
(* visitor classes (SumVisitor, MultiplyVisitor, XORVisitor) and main().   *)
(*                                                                         *)
(* Three state machines share the variables.  Spec is a client of the      *)
(* classes that dispatches any visitor to any element of a small pool and  *)
(* resets any visitor, in any order.  SpecMain is main() itself, one step  *)
(* per dispatch, catch, print and Reset.  SpecXor is the XORVisitor alone, *)
(* with a StringElement of any one character.                              *)
(***************************************************************************)
EXTENDS Integers, Sequences, FiniteSets, TLC

VARIABLES
    single_element_list,  \* std::list<SingleElement>: sequence of [value |-> double]
    array_element_list,   \* std::list<ArrayElement>: sequence of [value |-> Seq(double)]
    string_element,       \* StringElement: [value |-> sequence of character codes]
    sum_visitor,          \* SumVisitor: [value |-> double]
    multiply_visitor,     \* MultiplyVisitor: [value |-> double]
    xor_visitor,          \* XORVisitor: [value |-> unsigned char]
    called,               \* the handlers the last Accept() invoked, in order
    thrown,               \* what() of the std::runtime_error the last Accept() threw, if any
    log,                  \* the dispatches made to each visitor since its last Reset()
    last,                 \* the last operation a caller made, and the accumulator before it
    pc,                   \* main(): the statement about to run
    it,                   \* main(): the std::for_each iterator, as a 1-based position
    out,                  \* main(): the lines written to std::cout
    exit_status,          \* main(): <<>> while running, <<status>> once returned
    argc                  \* main(): its first argument

elements == <<single_element_list, array_element_list, string_element>>
visitors == <<sum_visitor, multiply_visitor, xor_visitor>>
driver == <<pc, it, out, exit_status, argc>>
vars == <<single_element_list, array_element_list, string_element, sum_visitor,
          multiply_visitor, xor_visitor, called, thrown, log, last, pc, it, out,
          exit_status, argc>>

----------------------------------------------------------------------------
(* Bounds of the model.                                                    *)

\* The client of Spec makes at most this many dispatches between Resets.
MaxDispatch == 2

\* main() is started with argc in 1..MaxArgc.
MaxArgc == 3

----------------------------------------------------------------------------
(* double.  A double is modelled by the dyadic rational it holds,          *)
(* [m, e] standing for m * 2^(-e), in normal form: m is odd, or m = 0 and  *)
(* e = 0.  The arithmetic below is exact, as IEEE arithmetic is on values  *)
(* of at most 53 significant bits; the model keeps mantissas within          *)
(* MantissaBits bits (AddExact, MulExact).                                 *)

RECURSIVE Pow2(_)
Pow2(n) == IF n = 0 THEN 1 ELSE 2 * Pow2(n - 1)

Abs(n) == IF n < 0 THEN -n ELSE n

Max(a, b) == IF a >= b THEN a ELSE b

RECURSIVE BitLen(_)
BitLen(n) == IF n = 0 THEN 0 ELSE 1 + BitLen(n \div 2)

RECURSIVE Norm(_, _)
Norm(m, e) ==
    IF m = 0 THEN [m |-> 0, e |-> 0]
    ELSE IF m % 2 = 0 THEN Norm(m \div 2, e - 1)
    ELSE [m |-> m, e |-> e]

\* the double literal n / 2^k
Dbl(n, k) == Norm(n, k)

MantissaBits == 29

AddExact(a, b) ==
    LET E == Max(a.e, b.e)
    IN  \/ a.m = 0
        \/ b.m = 0
        \/ /\ BitLen(Abs(a.m)) + (E - a.e) <= MantissaBits
           /\ BitLen(Abs(b.m)) + (E - b.e) <= MantissaBits

MulExact(a, b) == BitLen(Abs(a.m)) + BitLen(Abs(b.m)) <= MantissaBits

\* a + b on doubles
DblAdd(a, b) ==
    IF a.m = 0 THEN b
    ELSE IF b.m = 0 THEN a
    ELSE LET E == Max(a.e, b.e)
         IN  Norm(a.m * Pow2(E - a.e) + b.m * Pow2(E - b.e), E)

\* a * b on doubles
DblMul(a, b) == Norm(a.m * b.m, a.e + b.e)

\* int: 32 bits, two's complement
INT_MAX == Pow2(30) - 1 + Pow2(30)
INT_MIN == (-INT_MAX) - 1

\* The implicit conversion int -> double of `value += v`, `value *= v`: exact.
IntToDouble(v) == Norm(v, 0)

\* The implicit conversion double -> int of `int v = element.GetValue()`.  The
\* fractional part is discarded (truncation toward zero).  When the truncated
\* value cannot be represented in an int the behaviour is undefined: the
\* conversion instruction of the build yields INT_MIN (x86) or saturates
\* (INT_MAX or INT_MIN by sign).
InIntRange(d) ==
    \/ d.e >= 0
    \/ BitLen(Abs(d.m)) - d.e <= 31
    \/ (d.m = -1 /\ d.e = -31)

DoubleToInt(d) ==
    IF InIntRange(d)
    THEN IF d.e >= 0
         THEN {IF d.m >= 0 THEN d.m \div Pow2(d.e) ELSE -((-d.m) \div Pow2(d.e))}
         ELSE IF d.m = -1 /\ d.e = -31 THEN {INT_MIN} ELSE {d.m * Pow2(-d.e)}
    ELSE {INT_MIN, IF d.m > 0 THEN INT_MAX ELSE INT_MIN}

----------------------------------------------------------------------------
(* unsigned char                                                           *)

\* The conversion of an int to unsigned char.
ToUChar(n) == n % 256

\* a ^ b on ints in 0..255
RECURSIVE BitXor(_, _)
BitXor(a, b) ==
    IF a = 0 THEN b
    ELSE IF b = 0 THEN a
    ELSE (((a % 2) + (b % 2)) % 2) + (2 * BitXor(a \div 2, b \div 2))

\* std::isdigit in the "C" locale
IsDigit(ch) == ch >= 48 /\ ch <= 57

----------------------------------------------------------------------------
(* Element classes: the private member `value` and its accessor.           *)

SingleElement(value) == [value |-> value]
ArrayElement(value) == [value |-> value]
StringElement(value) == [value |-> value]

GetValue(object) == object.value

\* std::accumulate(first, last, init, op) is a left fold over the sequence: the
\* handlers below write it as acc[Len(v)], where acc[0] = init and
\* acc[i] = op(acc[i - 1], v[i]), each partial result bound to its value
\* before op is applied to it.

----------------------------------------------------------------------------
(* Visitor classes.  Each handler is the effect of one call on the program *)
(* state: it names itself in `called`, and sets `thrown` when it throws.   *)

SumVisitor_Init == [value |-> Dbl(0, 0)]
MultiplyVisitor_Init == [value |-> Dbl(1, 0)]
XORVisitor_Init == [value |-> 0]

SumVisitor_ProcessSingleElement(element) ==
    \E v \in DoubleToInt(GetValue(element)) :
        /\ AddExact(sum_visitor.value, IntToDouble(v))
        /\ sum_visitor' = [value |-> DblAdd(sum_visitor.value, IntToDouble(v))]
        /\ called' = <<"SumVisitor::ProcessSingleElement">>
        /\ thrown' = <<>>
        /\ UNCHANGED <<multiply_visitor, xor_visitor, elements>>

\* A faulty variant: the handler moves the vector out of the element.
SumVisitor_ProcessArrayElement_Moving(element) ==
    LET v == GetValue(element)
        sum == LET acc[i \in 0..Len(v)] ==
                       IF i = 0 THEN Dbl(0, 0)
                       ELSE CHOOSE next \in {DblAdd(prev, v[i]) : prev \in {acc[i - 1]}} : TRUE
               IN  acc[Len(v)]
    IN  /\ AddExact(sum_visitor.value, sum)
        /\ sum_visitor' = [value |-> DblAdd(sum_visitor.value, sum)]
        /\ called' = <<"SumVisitor::ProcessArrayElement">>
        /\ thrown' = <<>>
        /\ array_element_list' =
               [i \in DOMAIN array_element_list |->
                   IF array_element_list[i] = element THEN ArrayElement(<<>>)
                   ELSE array_element_list[i]]
        /\ UNCHANGED <<multiply_visitor, xor_visitor, single_element_list, string_element>>

SumVisitor_ProcessArrayElement(element) ==
    LET v == GetValue(element)
        sum == LET acc[i \in 0..Len(v)] ==
                       IF i = 0 THEN Dbl(0, 0)
                       ELSE CHOOSE next \in {DblAdd(prev, v[i]) : prev \in {acc[i - 1]}} : TRUE
               IN  acc[Len(v)]
    IN  /\ AddExact(sum_visitor.value, sum)
        /\ sum_visitor' = [value |-> DblAdd(sum_visitor.value, sum)]
        /\ called' = <<"SumVisitor::ProcessArrayElement">>
        /\ thrown' = <<>>
        /\ UNCHANGED <<multiply_visitor, xor_visitor, elements>>

SumVisitor_lambda(sum, ch) ==
    IF IsDigit(ch) THEN DblAdd(sum, IntToDouble(ch - 48)) ELSE sum

SumVisitor_ProcessStringElement(element) ==
    LET v == GetValue(element)
        sum == LET acc[i \in 0..Len(v)] ==
                       IF i = 0 THEN Dbl(0, 0)
                       ELSE CHOOSE next \in {SumVisitor_lambda(prev, v[i]) : prev \in {acc[i - 1]}} : TRUE
               IN  acc[Len(v)]
    IN  /\ AddExact(sum_visitor.value, sum)
        /\ sum_visitor' = [value |-> DblAdd(sum_visitor.value, sum)]
        /\ called' = <<"SumVisitor::ProcessStringElement">>
        /\ thrown' = <<>>
        /\ UNCHANGED <<multiply_visitor, xor_visitor, elements>>

\* A faulty variant: Reset() forgets the assignment.
SumVisitor_Reset_Noop == UNCHANGED <<visitors, elements>>

SumVisitor_Reset ==
    /\ sum_visitor' = [value |-> Dbl(0, 0)]
    /\ UNCHANGED <<multiply_visitor, xor_visitor, elements>>

MultiplyVisitor_ProcessSingleElement(element) ==
    \E v \in DoubleToInt(GetValue(element)) :
        /\ MulExact(multiply_visitor.value, IntToDouble(v))
        /\ multiply_visitor' = [value |-> DblMul(multiply_visitor.value, IntToDouble(v))]
        /\ called' = <<"MultiplyVisitor::ProcessSingleElement">>
        /\ thrown' = <<>>
        /\ UNCHANGED <<sum_visitor, xor_visitor, elements>>

MultiplyVisitor_lambda(product, value) == DblMul(product, value)

MultiplyVisitor_ProcessArrayElement(element) ==
    LET v == GetValue(element)
        product == LET acc[i \in 0..Len(v)] ==
                       IF i = 0 THEN Dbl(1, 0)
                       ELSE CHOOSE next \in {MultiplyVisitor_lambda(prev, v[i]) : prev \in {acc[i - 1]}} : TRUE
               IN  acc[Len(v)]
    IN  /\ MulExact(multiply_visitor.value, product)
        /\ multiply_visitor' = [value |-> DblMul(multiply_visitor.value, product)]
        /\ called' = <<"MultiplyVisitor::ProcessArrayElement">>
        /\ thrown' = <<>>
        /\ UNCHANGED <<sum_visitor, xor_visitor, elements>>

\* A faulty variant: the digit '0' is skipped like a non-digit.
MultiplyVisitor_lambda_multiply_SkipZero(product, ch) ==
    IF IsDigit(ch) /\ ch # 48 THEN DblMul(product, IntToDouble(ch - 48)) ELSE product

MultiplyVisitor_lambda_multiply(product, ch) ==
    IF IsDigit(ch) THEN DblMul(product, IntToDouble(ch - 48)) ELSE product

MultiplyVisitor_ProcessStringElement(element) ==
    LET v == GetValue(element)
        product == LET acc[i \in 0..Len(v)] ==
                       IF i = 0 THEN Dbl(1, 0)
                       ELSE CHOOSE next \in {MultiplyVisitor_lambda_multiply(prev, v[i]) : prev \in {acc[i - 1]}} : TRUE
               IN  acc[Len(v)]
    IN  /\ MulExact(multiply_visitor.value, product)
        /\ multiply_visitor' = [value |-> DblMul(multiply_visitor.value, product)]
        /\ called' = <<"MultiplyVisitor::ProcessStringElement">>
        /\ thrown' = <<>>
        /\ UNCHANGED <<sum_visitor, xor_visitor, elements>>

\* A faulty variant: Reset() copied from the SumVisitor.
MultiplyVisitor_Reset_Zero ==
    /\ multiply_visitor' = [value |-> Dbl(0, 0)]
    /\ UNCHANGED <<sum_visitor, xor_visitor, elements>>

MultiplyVisitor_Reset ==
    /\ multiply_visitor' = [value |-> Dbl(1, 0)]
    /\ UNCHANGED <<sum_visitor, xor_visitor, elements>>

XORVisitor_ProcessSingleElement(element) ==
    /\ called' = <<"XORVisitor::ProcessSingleElement">>
    /\ thrown' = <<"Error: Cannot apply XOR operation to SingleElement type">>
    /\ UNCHANGED <<visitors, elements>>

\* A faulty variant: the message copied from ProcessSingleElement.
XORVisitor_ProcessArrayElement_WrongName(element) ==
    /\ called' = <<"XORVisitor::ProcessArrayElement">>
    /\ thrown' = <<"Error: Cannot apply XOR operation to SingleElement type">>
    /\ UNCHANGED <<visitors, elements>>

XORVisitor_ProcessArrayElement(element) ==
    /\ called' = <<"XORVisitor::ProcessArrayElement">>
    /\ thrown' = <<"Error: Cannot apply XOR operation to ArrayElement type">>
    /\ UNCHANGED <<visitors, elements>>

\* Both parameters are unsigned char, the result is the int checksum ^ ch.
XORVisitor_lambda_xor(checksum, ch) == BitXor(ToUChar(checksum), ToUChar(ch))

XORVisitor_ProcessStringElement(element) ==
    LET v == GetValue(element)
        checksum == ToUChar(LET acc[i \in 0..Len(v)] ==
                       IF i = 0 THEN 0
                       ELSE CHOOSE next \in {XORVisitor_lambda_xor(prev, v[i]) : prev \in {acc[i - 1]}} : TRUE
               IN  acc[Len(v)])
    IN  /\ xor_visitor' = [value |-> ToUChar(BitXor(xor_visitor.value, checksum))]
        /\ called' = <<"XORVisitor::ProcessStringElement">>
        /\ thrown' = <<>>
        /\ UNCHANGED <<sum_visitor, multiply_visitor, elements>>

XORVisitor_Reset ==
    /\ xor_visitor' = [value |-> 0]
    /\ UNCHANGED <<sum_visitor, multiply_visitor, elements>>

----------------------------------------------------------------------------
(* Double dispatch.  A reference to AbstractVisitor or AbstractElement is  *)
(* modelled by the dynamic type of the object it refers to; a virtual call *)
(* selects the override of that type.                                      *)

VisitorTypes == {"SumVisitor", "MultiplyVisitor", "XORVisitor"}
ElementTypes == {"SingleElement", "ArrayElement", "StringElement"}

AbstractVisitor_ProcessSingleElement(visitor, element) ==
    CASE visitor = "SumVisitor" -> SumVisitor_ProcessSingleElement(element)
      [] visitor = "MultiplyVisitor" -> MultiplyVisitor_ProcessSingleElement(element)
      [] visitor = "XORVisitor" -> XORVisitor_ProcessSingleElement(element)

AbstractVisitor_ProcessArrayElement(visitor, element) ==
    CASE visitor = "SumVisitor" -> SumVisitor_ProcessArrayElement(element)
      [] visitor = "MultiplyVisitor" -> MultiplyVisitor_ProcessArrayElement(element)
      [] visitor = "XORVisitor" -> XORVisitor_ProcessArrayElement(element)

AbstractVisitor_ProcessStringElement(visitor, element) ==
    CASE visitor = "SumVisitor" -> SumVisitor_ProcessStringElement(element)
      [] visitor = "MultiplyVisitor" -> MultiplyVisitor_ProcessStringElement(element)
      [] visitor = "XORVisitor" -> XORVisitor_ProcessStringElement(element)

SingleElement_Accept(element, visitor) ==
    AbstractVisitor_ProcessSingleElement(visitor, element)

\* A faulty variant: Accept() with an empty body.
ArrayElement_Accept_NoCall(element, visitor) ==
    /\ called' = <<>>
    /\ thrown' = <<>>
    /\ UNCHANGED <<visitors, elements>>

ArrayElement_Accept(element, visitor) ==
    AbstractVisitor_ProcessArrayElement(visitor, element)

StringElement_Accept(element, visitor) ==
    AbstractVisitor_ProcessStringElement(visitor, element)

AbstractElement_Accept(type, element, visitor) ==
    CASE type = "SingleElement" -> SingleElement_Accept(element, visitor)
      [] type = "ArrayElement" -> ArrayElement_Accept(element, visitor)
      [] type = "StringElement" -> StringElement_Accept(element, visitor)

Visitor_Reset(visitor) ==
    CASE visitor = "SumVisitor" -> SumVisitor_Reset
      [] visitor = "MultiplyVisitor" -> MultiplyVisitor_Reset
      [] visitor = "XORVisitor" -> XORVisitor_Reset

----------------------------------------------------------------------------
(* The callers' record of what they did.                                   *)

\* The element of dynamic type `type` at position i (the StringElement has position 1).
ElementAt(type, i) ==
    CASE type = "SingleElement" -> single_element_list[i]
      [] type = "ArrayElement" -> array_element_list[i]
      [] type = "StringElement" -> string_element

Positions(type) ==
    CASE type = "SingleElement" -> 1..Len(single_element_list)
      [] type = "ArrayElement" -> 1..Len(array_element_list)
      [] type = "StringElement" -> {1}

\* The accumulator of the visitor of dynamic type `visitor`.
Accumulator(visitor) ==
    CASE visitor = "SumVisitor" -> sum_visitor.value
      [] visitor = "MultiplyVisitor" -> multiply_visitor.value
      [] visitor = "XORVisitor" -> xor_visitor.value

NoCall == [op |-> "none", visitor |-> "none", type |-> "none", at |-> 0, before |-> 0]

\* element.Accept(visitor) as a caller sees it
Dispatch(type, i, visitor) ==
    /\ AbstractElement_Accept(type, ElementAt(type, i), visitor)
    /\ log' = Append(log, [visitor |-> visitor, type |-> type, at |-> i])
    /\ last' = [op |-> "Accept", visitor |-> visitor, type |-> type, at |-> i,
                before |-> Accumulator(visitor)]

\* visitor.Reset() as a caller sees it
Reset(visitor) ==
    /\ Visitor_Reset(visitor)
    /\ log' = SelectSeq(log, LAMBDA d : d.visitor # visitor)
    /\ last' = [op |-> "Reset", visitor |-> visitor, type |-> "none", at |-> 0,
                before |-> Accumulator(visitor)]
    /\ UNCHANGED <<called, thrown>>

----------------------------------------------------------------------------
(* Spec: a client of the classes.                                          *)

\* 1.5, -2.5, 3.0 and 2147483648.0
SingleValues == <<Dbl(3, 1), Dbl(-5, 1), Dbl(3, 0), Dbl(1, -31)>>

\* {}, {0.5, 3.0} and {-2.0, 1.5}
ArrayValues == << <<>>, <<Dbl(1, 1), Dbl(3, 0)>>, <<Dbl(-2, 0), Dbl(3, 1)>> >>

\* "", "a1", "20" and "7\2\310"
StringValues == { <<>>, <<97, 49>>, <<50, 48>>, <<55, 2, 200>> }

Init ==
    /\ single_element_list = [i \in 1..Len(SingleValues) |-> SingleElement(SingleValues[i])]
    /\ array_element_list = [i \in 1..Len(ArrayValues) |-> ArrayElement(ArrayValues[i])]
    /\ string_element \in {StringElement(s) : s \in StringValues}
    /\ sum_visitor = SumVisitor_Init
    /\ multiply_visitor = MultiplyVisitor_Init
    /\ xor_visitor = XORVisitor_Init
    /\ called = <<>>
    /\ thrown = <<>>
    /\ log = <<>>
    /\ last = NoCall
    /\ pc = 0
    /\ it = 1
    /\ out = <<>>
    /\ exit_status = <<>>
    /\ argc = 0

ClientAccept ==
    /\ pc = 0
    /\ Len(log) < MaxDispatch
    /\ \E visitor \in VisitorTypes, type \in ElementTypes :
           \E i \in Positions(type) : Dispatch(type, i, visitor)
    /\ UNCHANGED driver

ClientReset ==
    /\ pc = 0
    /\ \E visitor \in VisitorTypes : Reset(visitor)
    /\ UNCHANGED driver

Next == ClientAccept \/ ClientReset

Spec == Init /\ [][Next]_vars

----------------------------------------------------------------------------
(* SpecXor: the XORVisitor alone.  The StringElement holds any string of   *)
(* one character, so that one dispatch takes the accumulator to any value  *)
(* of an unsigned char.                                                    *)

CharCodes == 0..255

InitXor ==
    /\ single_element_list = [i \in 1..Len(SingleValues) |-> SingleElement(SingleValues[i])]
    /\ array_element_list = [i \in 1..Len(ArrayValues) |-> ArrayElement(ArrayValues[i])]
    /\ string_element \in {StringElement(<<ch>>) : ch \in CharCodes}
    /\ sum_visitor = SumVisitor_Init
    /\ multiply_visitor = MultiplyVisitor_Init
    /\ xor_visitor = XORVisitor_Init
    /\ called = <<>>
    /\ thrown = <<>>
    /\ log = <<>>
    /\ last = NoCall
    /\ pc = 0
    /\ it = 1
    /\ out = <<>>
    /\ exit_status = <<>>
    /\ argc = 0

XorAccept ==
    /\ pc = 0
    /\ Len(log) < MaxDispatch
    /\ \E type \in ElementTypes :
           \E i \in Positions(type) : Dispatch(type, i, "XORVisitor")
    /\ UNCHANGED driver

XorReset ==
    /\ pc = 0
    /\ Reset("XORVisitor")
    /\ UNCHANGED driver

NextXor == XorAccept \/ XorReset

SpecXor == InitXor /\ [][NextXor]_vars

----------------------------------------------------------------------------
(* std::cout.  A line of output is the sequence of the strings inserted    *)
(* before std::endl.                                                       *)

RECURSIVE Pow10(_)
Pow10(n) == IF n = 0 THEN 1 ELSE 10 * Pow10(n - 1)

RECURSIVE Pow5(_)
Pow5(n) == IF n = 0 THEN 1 ELSE 5 * Pow5(n - 1)

\* The number of decimal digits of n > 0.
RECURSIVE DecLen(_)
DecLen(n) == IF n < 10 THEN 1 ELSE 1 + DecLen(n \div 10)

DigitChar(n) == <<"0", "1", "2", "3", "4", "5", "6", "7", "8", "9">>[n + 1]

\* The decimal digits of n >= 0, at least `width` of them.
RECURSIVE Digits(_, _)
Digits(n, width) ==
    IF n < 10 /\ width <= 1 THEN DigitChar(n)
    ELSE Digits(n \div 10, width - 1) \o DigitChar(n % 10)

RECURSIVE Zeros(_)
Zeros(n) == IF n <= 0 THEN "" ELSE "0" \o Zeros(n - 1)

\* operator<<(int)
FormatInt(n) == IF n < 0 THEN "-" \o Digits(-n, 1) ELSE Digits(n, 1)

\* n without its trailing decimal zeros, n > 0
RECURSIVE StripZeros(_)
StripZeros(n) == IF n % 10 = 0 THEN StripZeros(n \div 10) ELSE n

\* operator<<(double) with the stream's defaults: printf's %g at precision 6.
\* The value is n / 10^k exactly (m / 2^e = m * 5^e / 10^e); it is rounded to 6 significant digits (ties
\* to even), written in scientific notation when its decimal exponent X is
\* below -4 or at least 6, and trailing zeros are removed.
FormatDouble(d) ==
    LET n == IF d.e <= 0 THEN Abs(d.m) * Pow2(-d.e) ELSE Abs(d.m) * Pow5(d.e)
        k == IF d.e <= 0 THEN 0 ELSE d.e
        sign == IF d.m < 0 THEN "-" ELSE ""
        len == DecLen(n)
        drop == len - 6
        q0 == IF drop <= 0 THEN n ELSE n \div Pow10(drop)
        r0 == IF drop <= 0 THEN 0 ELSE n % Pow10(drop)
        up == drop > 0 /\ (2 * r0 > Pow10(drop) \/ (2 * r0 = Pow10(drop) /\ q0 % 2 = 1))
        q1 == IF up THEN q0 + 1 ELSE q0
        carry == drop > 0 /\ q1 = Pow10(6)
        X == len - 1 - k + (IF carry THEN 1 ELSE 0)
        q == StripZeros(q1)
        nd == DecLen(q)
        text == Digits(q, 1)
    IN  IF n = 0 THEN "0"
        ELSE IF X < -4 \/ X >= 6
        THEN sign \o DigitChar(q \div Pow10(nd - 1))
                  \o (IF nd > 1 THEN "." \o Digits(q % Pow10(nd - 1), nd - 1) ELSE "")
                  \o "e" \o (IF X < 0 THEN "-" ELSE "+") \o Digits(Abs(X), 2)
        ELSE IF X >= nd - 1 THEN sign \o text \o Zeros(X - nd + 1)
        ELSE IF X >= 0
        THEN sign \o Digits(q \div Pow10(nd - 1 - X), 1) \o "."
                  \o Digits(q % Pow10(nd - 1 - X), nd - 1 - X)
        ELSE sign \o "0." \o Zeros(-X - 1) \o text

----------------------------------------------------------------------------
(* SpecMain: main().  pc is the position in Program of the statement about *)
(* to run, Done once main() has returned; it is 0 outside main().          *)

\* "Hello World 123456789\2"
HelloWorld ==
    <<72, 101, 108, 108, 111, 32, 87, 111, 114, 108, 100, 32,
      49, 50, 51, 52, 53, 54, 55, 56, 57, 2>>

\* initial_values
InitialValues == [i \in 1..9 |-> Dbl(i, 0)]

\* The statements of main() after the construction of the elements and the
\* visitors: each try block, each print and each Reset().
Program ==
    << [stmt |-> "for_each", batch |-> "SingleElement", visitor |-> "SumVisitor"],
       [stmt |-> "for_each", batch |-> "SingleElement", visitor |-> "MultiplyVisitor"],
       [stmt |-> "for_each", batch |-> "SingleElement", visitor |-> "XORVisitor"],
       [stmt |-> "print", batch |-> "SingleElement", visitor |-> "SumVisitor",
        text |-> "Sum of SingleElement list: "],
       [stmt |-> "print", batch |-> "SingleElement", visitor |-> "MultiplyVisitor",
        text |-> "Product of SingleElement list: "],
       [stmt |-> "print", batch |-> "SingleElement", visitor |-> "XORVisitor",
        text |-> "Checksum of SingleElement list: "],
       [stmt |-> "reset", batch |-> "SingleElement", visitor |-> "SumVisitor"],
       [stmt |-> "reset", batch |-> "SingleElement", visitor |-> "MultiplyVisitor"],
       [stmt |-> "reset", batch |-> "SingleElement", visitor |-> "XORVisitor"],
       [stmt |-> "for_each", batch |-> "ArrayElement", visitor |-> "SumVisitor"],
       [stmt |-> "for_each", batch |-> "ArrayElement", visitor |-> "MultiplyVisitor"],
       [stmt |-> "for_each", batch |-> "ArrayElement", visitor |-> "XORVisitor"],
       [stmt |-> "print", batch |-> "ArrayElement", visitor |-> "SumVisitor",
        text |-> "Sum of ArrayElement list: "],
       [stmt |-> "print", batch |-> "ArrayElement", visitor |-> "MultiplyVisitor",
        text |-> "Product of ArrayElement list: "],
       [stmt |-> "print", batch |-> "ArrayElement", visitor |-> "XORVisitor",
        text |-> "Checksum of ArrayElement list: "],
       [stmt |-> "reset", batch |-> "ArrayElement", visitor |-> "SumVisitor"],
       [stmt |-> "reset", batch |-> "ArrayElement", visitor |-> "MultiplyVisitor"],
       [stmt |-> "reset", batch |-> "ArrayElement", visitor |-> "XORVisitor"],
       [stmt |-> "accept", batch |-> "StringElement", visitor |-> "SumVisitor"],
       [stmt |-> "accept", batch |-> "StringElement", visitor |-> "MultiplyVisitor"],
       [stmt |-> "accept", batch |-> "StringElement", visitor |-> "XORVisitor"],
       [stmt |-> "print", batch |-> "StringElement", visitor |-> "SumVisitor",
        text |-> "Sum of StringElement: "],
       [stmt |-> "print", batch |-> "StringElement", visitor |-> "MultiplyVisitor",
        text |-> "Product of StringElement: "],
       [stmt |-> "print", batch |-> "StringElement", visitor |-> "XORVisitor",
        text |-> "Checksum of StringElement: "],
       [stmt |-> "reset", batch |-> "StringElement", visitor |-> "SumVisitor"],
       [stmt |-> "reset", batch |-> "StringElement", visitor |-> "MultiplyVisitor"],
       [stmt |-> "reset", batch |-> "StringElement", visitor |-> "XORVisitor"],
       [stmt |-> "return", batch |-> "none", visitor |-> "none"] >>

Done == Len(Program) + 1

\* The statement at pc is of this kind.
At(stmt) == pc \in DOMAIN Program /\ Program[pc].stmt = stmt

InitMain ==
    /\ single_element_list = [i \in 1..Len(InitialValues) |-> SingleElement(InitialValues[i])]
    /\ array_element_list =
           << ArrayElement(<<Dbl(1, 0)>>),
              ArrayElement(<<Dbl(2, 0), Dbl(3, 0)>>),
              ArrayElement(<<Dbl(4, 0), Dbl(5, 0), Dbl(6, 0)>>),
              ArrayElement(<<Dbl(7, 0), Dbl(8, 0), Dbl(9, 0)>>) >>
    /\ string_element = StringElement(HelloWorld)
    /\ sum_visitor = SumVisitor_Init
    /\ multiply_visitor = MultiplyVisitor_Init
    /\ xor_visitor = XORVisitor_Init
    /\ called = <<>>
    /\ thrown = <<>>
    /\ log = <<>>
    /\ last = NoCall
    /\ pc = 1
    /\ it = 1
    /\ out = <<>>
    /\ exit_status = <<>>
    /\ argc \in 1..MaxArgc

\* A faulty variant: the try block inside the loop, around each Accept().
MainForEach_CatchEach ==
    /\ At("for_each")
    /\ thrown = <<>>
    /\ Dispatch(Program[pc].batch, it, Program[pc].visitor)
    /\ IF it < Cardinality(Positions(Program[pc].batch)) THEN it' = it + 1 /\ pc' = pc
       ELSE it' = 1 /\ pc' = pc + 1
    /\ out' = out \o [k \in 1..Len(thrown') |-> <<thrown'[k]>>]
    /\ UNCHANGED <<exit_status, argc>>

\* One iteration of std::for_each inside a try block: element.Accept(visitor)
\* for the element at the iterator.  An exception leaves for_each, and control
\* goes to the catch clause of the block (MainCatch); otherwise the iterator
\* advances, and the block ends when it reaches end().
MainForEach ==
    /\ At("for_each")
    /\ thrown = <<>>
    /\ Dispatch(Program[pc].batch, it, Program[pc].visitor)
    /\ IF thrown' # <<>> THEN UNCHANGED <<pc, it>>
       ELSE IF it < Cardinality(Positions(Program[pc].batch)) THEN it' = it + 1 /\ pc' = pc
       ELSE it' = 1 /\ pc' = pc + 1
    /\ UNCHANGED <<out, exit_status, argc>>

\* string_element.Accept(visitor) inside a try block.
MainAccept ==
    /\ At("accept")
    /\ thrown = <<>>
    /\ Dispatch("StringElement", 1, Program[pc].visitor)
    /\ IF thrown' # <<>> THEN pc' = pc ELSE pc' = pc + 1
    /\ UNCHANGED <<it, out, exit_status, argc>>

\* A faulty variant: the catch clause names another exception type, and the
\* std::runtime_error ends the process through std::terminate().
MainCatch_Uncaught ==
    /\ At("for_each") \/ At("accept")
    /\ thrown # <<>>
    /\ exit_status' = <<134>>
    /\ pc' = Done
    /\ UNCHANGED <<elements, visitors, called, thrown, log, last, it, out, argc>>

\* catch(const std::runtime_error &e) of the try block at pc: prints e.what()
\* and goes on after the block.
MainCatch ==
    /\ At("for_each") \/ At("accept")
    /\ thrown # <<>>
    /\ out' = Append(out, <<thrown[1]>>)
    /\ thrown' = <<>>
    /\ pc' = pc + 1
    /\ it' = 1
    /\ UNCHANGED <<elements, visitors, called, log, last, exit_status, argc>>

\* What a print statement inserts after its text: GetValue(), a double for the
\* SumVisitor and the MultiplyVisitor, static_cast<int> of the unsigned char
\* for the XORVisitor.
Printed(visitor) ==
    CASE visitor = "SumVisitor" -> FormatDouble(sum_visitor.value)
      [] visitor = "MultiplyVisitor" -> FormatDouble(multiply_visitor.value)
      [] visitor = "XORVisitor" -> FormatInt(xor_visitor.value)

MainPrint ==
    /\ At("print")
    /\ out' = Append(out, <<Program[pc].text, Printed(Program[pc].visitor)>>)
    /\ pc' = pc + 1
    /\ UNCHANGED <<elements, visitors, called, thrown, log, last, it, exit_status, argc>>

MainReset ==
    /\ At("reset")
    /\ Reset(Program[pc].visitor)
    /\ pc' = pc + 1
    /\ UNCHANGED <<it, out, exit_status, argc>>

MainReturn ==
    /\ At("return")
    /\ exit_status' = <<0>>
    /\ pc' = Done
    /\ UNCHANGED <<elements, visitors, called, thrown, log, last, it, out, argc>>

NextMain ==
    \/ MainForEach
    \/ MainAccept
    \/ MainCatch
    \/ MainPrint
    \/ MainReset
    \/ MainReturn

\* main() is a sequential program: while a statement is left, it runs.
SpecMain == InitMain /\ [][NextMain]_vars /\ WF_vars(NextMain)

----------------------------------------------------------------------------
(* Properties of the classes (Spec, SpecXor).                              *)

\* The dispatches in the log that were made to `visitor`.
LogOf(visitor) == SelectSeq(log, LAMBDA d : d.visitor = visitor)

\* The step just taken was element.Accept(visitor) for an element of these types.
Accepted(visitor, types) ==
    /\ last'.op = "Accept"
    /\ last'.visitor = visitor
    /\ last'.type \in types

UnsupportedMessage(type) == "Error: Cannot apply XOR operation to " \o type \o " type"

\* C2: dispatching the XOR visitor on a SingleElement or an ArrayElement, from
\* any accumulator value, throws exactly one error, whose message names the
\* element's own type, and leaves the accumulator as it was.
C2_XorUnsupported ==
    [][Accepted("XORVisitor", {"SingleElement", "ArrayElement"})
        => /\ thrown' = <<UnsupportedMessage(last'.type)>>
           /\ xor_visitor' = xor_visitor]_vars

C2_Witness ==
    /\ last.op = "Accept"
    /\ last.visitor = "XORVisitor"
    /\ last.type = "ArrayElement"
    /\ last.before = 200
    /\ xor_visitor.value = 200
    /\ Len(thrown) = 1

HandlerOf(visitor, type) ==
    visitor \o "::Process" \o type

\* C3: one Accept() of an element of type V given a visitor of type W invokes
\* exactly one handler, W's handler for V.
C3_DoubleDispatch ==
    last.op = "Accept" => called = <<HandlerOf(last.visitor, last.type)>>

C3_Witness ==
    /\ last.op = "Accept"
    /\ last.visitor = "MultiplyVisitor"
    /\ last.type = "StringElement"
    /\ called = <<"MultiplyVisitor::ProcessStringElement">>

\* d >= 0 on doubles
NonNegative(d) == d.m >= 0

\* d truncated toward zero to an integer, as a number
Truncated(d) ==
    IF d.e <= 0 THEN d
    ELSE IF d.m >= 0 THEN Norm(d.m \div Pow2(d.e), 0)
    ELSE Norm(-((-d.m) \div Pow2(d.e)), 0)

RECURSIVE SumOfValues(_)
SumOfValues(v) == IF v = <<>> THEN Dbl(0, 0) ELSE DblAdd(Head(v), SumOfValues(Tail(v)))

\* The values a logged dispatch handed to the visitor.
ValuesOf(d) ==
    IF d.type = "SingleElement" THEN <<ElementAt(d.type, d.at).value>>
    ELSE ElementAt(d.type, d.at).value

\* What a logged dispatch contributes to a sum, by C4.
SumContribution(d) ==
    IF d.type = "SingleElement" THEN Truncated(ElementAt(d.type, d.at).value)
    ELSE SumOfValues(ElementAt(d.type, d.at).value)

RECURSIVE SumOfContributions(_)
SumOfContributions(ds) ==
    IF ds = <<>> THEN Dbl(0, 0)
    ELSE DblAdd(SumContribution(Head(ds)), SumOfContributions(Tail(ds)))

ScalarDispatchesOnly(ds) ==
    \A k \in 1..Len(ds) : ds[k].type \in {"SingleElement", "ArrayElement"}

AllNonNegative(ds) ==
    \A k \in 1..Len(ds) :
        \A j \in 1..Len(ValuesOf(ds[k])) : NonNegative(ValuesOf(ds[k])[j])

\* C4: after any dispatches of non-negative values to a SumVisitor since its
\* construction or last Reset(), GetValue() is the sum of the contributions: a
\* SingleElement contributes its value truncated toward zero, an ArrayElement
\* the sum of its values.
C4_SumOfContributions ==
    (ScalarDispatchesOnly(LogOf("SumVisitor")) /\ AllNonNegative(LogOf("SumVisitor")))
        => sum_visitor.value = SumOfContributions(LogOf("SumVisitor"))

SinglesOnly(ds) == \A k \in 1..Len(ds) : ds[k].type = "SingleElement"

RECURSIVE ProductOfSingles(_)
ProductOfSingles(ds) ==
    IF ds = <<>> THEN Dbl(1, 0)
    ELSE DblMul(ElementAt(Head(ds).type, Head(ds).at).value, ProductOfSingles(Tail(ds)))

\* C5: after any dispatches of scalar values to a MultiplyVisitor since its
\* construction or last Reset(), the accumulator is their arithmetic product;
\* an ArrayElement holding an empty sequence leaves it unchanged.
C5_ArithmeticProduct ==
    /\ SinglesOnly(LogOf("MultiplyVisitor"))
        => multiply_visitor.value = ProductOfSingles(LogOf("MultiplyVisitor"))
    /\ (/\ last.op = "Accept"
        /\ last.visitor = "MultiplyVisitor"
        /\ last.type = "ArrayElement"
        /\ ElementAt(last.type, last.at).value = <<>>)
        => multiply_visitor.value = last.before

\* The decimal digit values of the ASCII digits of s, in order.
DigitValues(s) ==
    LET digits == SelectSeq(s, LAMBDA ch : ch \in 48..57)
    IN  [k \in 1..Len(digits) |-> digits[k] - 48]

RECURSIVE SumOfInts(_)
SumOfInts(ns) == IF ns = <<>> THEN 0 ELSE Head(ns) + SumOfInts(Tail(ns))

RECURSIVE ProductOfInts(_)
ProductOfInts(ns) == IF ns = <<>> THEN 1 ELSE Head(ns) * ProductOfInts(Tail(ns))

\* Bit k of n.
Bit(n, k) == (n \div Pow2(k)) % 2

\* Bit k of the XOR of a with all the codes of s: the parity of the ones.
XorBit(a, s, k) ==
    (Bit(a, k) + Cardinality({j \in 1..Len(s) : Bit(s[j], k) = 1})) % 2

\* C6: on a StringElement holding s, the SumVisitor adds the sum of the digit
\* values of the ASCII digits of s, the MultiplyVisitor multiplies by their
\* product, and the XORVisitor XORs in the codes of all the characters of s,
\* never fails, and keeps its accumulator in 0..255.
C6_StringHandlers ==
    [][LET s == string_element.value
       IN  /\ Accepted("SumVisitor", {"StringElement"})
               => sum_visitor'.value
                      = DblAdd(sum_visitor.value, IntToDouble(SumOfInts(DigitValues(s))))
           /\ Accepted("MultiplyVisitor", {"StringElement"})
               => multiply_visitor'.value
                      = DblMul(multiply_visitor.value, IntToDouble(ProductOfInts(DigitValues(s))))
           /\ Accepted("XORVisitor", {"StringElement"})
               => /\ thrown' = <<>>
                  /\ xor_visitor'.value \in 0..255
                  /\ \A k \in 0..7 :
                         Bit(xor_visitor'.value, k) = XorBit(xor_visitor.value, s, k)]_vars

C6_Witness ==
    /\ last.op = "Accept"
    /\ last.visitor = "XORVisitor"
    /\ last.type = "StringElement"
    /\ string_element.value = <<55, 2, 200>>
    /\ last.before = 0
    /\ xor_visitor.value = 253
    /\ multiply_visitor.value = Dbl(7, 0)

\* The identity of each accumulator.
Identity(visitor) ==
    CASE visitor = "SumVisitor" -> [m |-> 0, e |-> 0]
      [] visitor = "MultiplyVisitor" -> [m |-> 1, e |-> 0]
      [] visitor = "XORVisitor" -> 0

Constructed(visitor) ==
    CASE visitor = "SumVisitor" -> SumVisitor_Init.value
      [] visitor = "MultiplyVisitor" -> MultiplyVisitor_Init.value
      [] visitor = "XORVisitor" -> XORVisitor_Init.value

\* C7: from any accumulator value Reset() leaves the identity of the visitor
\* (0.0, 1.0, 0), which is the value a newly constructed visitor holds, and a
\* second Reset() in a row changes nothing.
C7_Reset ==
    /\ [](last.op = "Reset"
            => /\ Accumulator(last.visitor) = Identity(last.visitor)
               /\ Accumulator(last.visitor) = Constructed(last.visitor))
    /\ [][(last.op = "Reset" /\ last'.op = "Reset" /\ last'.visitor = last.visitor)
            => <<visitors, elements>>' = <<visitors, elements>>]_vars

C7_Witness ==
    /\ last.op = "Reset"
    /\ last.visitor = "MultiplyVisitor"
    /\ last.before = Dbl(-3, 0)
    /\ multiply_visitor.value = Dbl(1, 0)

\* C10: Accept() and Reset(), failing or not, change at most the accumulator
\* of the visitor they are given: the other two visitors and every element
\* keep their values.
C10_Frame ==
    [][(last'.op \in {"Accept", "Reset"})
        => /\ elements' = elements
           /\ last'.visitor # "SumVisitor" => sum_visitor' = sum_visitor
           /\ last'.visitor # "MultiplyVisitor" => multiply_visitor' = multiply_visitor
           /\ last'.visitor # "XORVisitor" => xor_visitor' = xor_visitor]_vars

C10_Witness ==
    /\ last.op = "Accept"
    /\ last.visitor = "XORVisitor"
    /\ last.type = "SingleElement"
    /\ thrown # <<>>
    /\ sum_visitor.value = Dbl(7, 1)
    /\ multiply_visitor.value = Dbl(1, 0)

----------------------------------------------------------------------------
(* Properties of main() (SpecMain).                                        *)

\* The position in Program of the first print of a batch: all three try
\* blocks of the batch are behind.
FirstPrint(batch) ==
    CHOOSE k \in DOMAIN Program :
        /\ Program[k].stmt = "print"
        /\ Program[k].batch = batch
        /\ Program[k].visitor = "SumVisitor"

\* The error lines among these lines, and the result lines.
ErrorLines(lines) == SelectSeq(lines, LAMBDA line : Len(line) = 1)
ResultLines(lines) == SelectSeq(lines, LAMBDA line : Len(line) = 2)

\* The lines of this text among these lines.
LinesOf(lines, text) == SelectSeq(lines, LAMBDA line : line = <<text>>)

\* C1 as claimed: the XOR visitor is dispatched to all nine SingleElements and
\* to all four ArrayElements, and each dispatch prints its own error line.
C1_ErrorPerElement ==
    /\ pc = FirstPrint("SingleElement")
        => /\ Len(LogOf("XORVisitor")) = 9
           /\ Len(LinesOf(out, UnsupportedMessage("SingleElement"))) = 9
    /\ pc = FirstPrint("ArrayElement")
        => /\ Len(LogOf("XORVisitor")) = 4
           /\ Len(LinesOf(out, UnsupportedMessage("ArrayElement"))) = 4

\* C1, amended: the error of the XOR visitor is caught by the try block around
\* the whole std::for_each, so it ends the for_each and not the batch: in each
\* of the two batches the XOR visitor is dispatched to the first element only,
\* one error line is printed, and main() goes on to print the batch.
C1_ErrorPerBatch ==
    /\ pc = FirstPrint("SingleElement")
        => /\ LogOf("XORVisitor")
                = <<[visitor |-> "XORVisitor", type |-> "SingleElement", at |-> 1]>>
           /\ out = << <<UnsupportedMessage("SingleElement")>> >>
    /\ pc = FirstPrint("ArrayElement")
        => /\ LogOf("XORVisitor")
                = <<[visitor |-> "XORVisitor", type |-> "ArrayElement", at |-> 1]>>
           /\ ErrorLines(out) = << <<UnsupportedMessage("SingleElement")>>,
                                   <<UnsupportedMessage("ArrayElement")>> >>
    /\ pc = Done => Len(ErrorLines(out)) = 2 /\ Len(ResultLines(out)) = 9

C1_Witness ==
    /\ pc = FirstPrint("ArrayElement")
    /\ Len(LogOf("SumVisitor")) = 4
    /\ Len(LogOf("XORVisitor")) = 1
    /\ Len(LinesOf(out, UnsupportedMessage("ArrayElement"))) = 1

\* The XOR of the codes of s, bit by bit.
XorOfCodes(s) ==
    LET bits == [k \in 0..7 |-> XorBit(0, s, k)]
    IN  bits[0] + 2 * bits[1] + 4 * bits[2] + 8 * bits[3]
            + 16 * bits[4] + 32 * bits[5] + 64 * bits[6] + 128 * bits[7]

\* The result lines of a run, by C8.
ExpectedResults ==
    << <<"Sum of SingleElement list: ", "45">>,
       <<"Product of SingleElement list: ", "362880">>,
       <<"Checksum of SingleElement list: ", "0">>,
       <<"Sum of ArrayElement list: ", "45">>,
       <<"Product of ArrayElement list: ", "362880">>,
       <<"Checksum of ArrayElement list: ", "0">>,
       <<"Sum of StringElement: ", "45">>,
       <<"Product of StringElement: ", "362880">>,
       <<"Checksum of StringElement: ", FormatInt(XorOfCodes(string_element.value))>> >>

\* C8: every batch prints sum 45, product 362880 and checksum 0, but for the
\* checksum of the text batch, which is the XOR of the codes of all 22
\* characters; the text batch reports no error.
C8_PrintedValues ==
    LET results == ResultLines(out)
    IN  /\ Len(results) <= Len(ExpectedResults)
        /\ \A k \in 1..Len(results) : results[k] = ExpectedResults[k]
        /\ Len(string_element.value) = 22 /\ string_element.value[22] = 2
        /\ pc = Done
            => /\ Len(results) = 9
               /\ Len(out[Len(out) - 3]) = 2

C8_Witness ==
    /\ pc = Done
    /\ out[Len(out)] = <<"Checksum of StringElement: ", "51">>
    /\ out[Len(out) - 5] = <<"Sum of ArrayElement list: ", "45">>

\* The text of the three result lines of a batch.
ResultTexts(batch) ==
    LET name == IF batch = "StringElement" THEN batch ELSE batch \o " list"
    IN  <<"Sum of " \o name \o ": ", "Product of " \o name \o ": ",
          "Checksum of " \o name \o ": ">>

\* lines is some error lines followed by the three result lines of the batch.
IsBatch(lines, batch) ==
    LET n == Len(lines)
    IN  /\ n >= 3
        /\ \A k \in 1..(n - 3) :
               /\ Len(lines[k]) = 1
               /\ lines[k][1] \in {UnsupportedMessage(t) : t \in ElementTypes}
        /\ \A j \in 1..3 :
               /\ Len(lines[n - 3 + j]) = 2
               /\ lines[n - 3 + j][1] = ResultTexts(batch)[j]

\* The output is the scalar, the sequence and the text batch, in that order.
WellFormed(lines) ==
    \E a \in 3..Len(lines), b \in 3..Len(lines) :
        /\ a + b + 3 <= Len(lines)
        /\ IsBatch(SubSeq(lines, 1, a), "SingleElement")
        /\ IsBatch(SubSeq(lines, a + 1, a + b), "ArrayElement")
        /\ IsBatch(SubSeq(lines, a + b + 1, Len(lines)), "StringElement")

\* C9: main() always returns, with status 0, and its output is then the three
\* batches in order, each its error lines followed by its sum, product and
\* checksum lines; after an error of the XOR visitor main() still returns.
C9_Terminates ==
    /\ <>(pc = Done)
    /\ [](pc = Done => exit_status = <<0>> /\ WellFormed(out))
    /\ (thrown # <<>>) ~> (pc = Done)

C9_Witness ==
    /\ pc = Done
    /\ exit_status = <<0>>
    /\ Len(ErrorLines(out)) > 0
    /\ Len(out) = 11

====
